---- MODULE Spec2Model ----
(***************************************************************************)
(* Authentication / session lifecycle of Chronosi.                         *)
(*                                                                         *)
(* Server side (specification Spec): the Express handlers of               *)
(* backend/src/routes/auth.ts, the authenticateToken middleware and the    *)
(* password / account routes of the users router, acting on the users and  *)
(* user_sessions tables.                                                   *)
(*                                                                         *)
(* Client side (specification ClientSpec): the AuthProvider of the React    *)
(* AuthContext: retryWithBackoff, authFetch, the error classification and  *)
(* the login and logout operations, against a server whose answers are     *)
(* arbitrary.  LoginSpec is the login operation by itself; StartupSpec is   *)
(* the check the provider runs when it mounts, with the refresh calls.      *)
(*                                                                         *)
(* FormsSpec is login and signup together.                                  *)
(*                                                                         *)
(* DevicesSpec: logout and /me of two registered users who hold two        *)
(* sessions each.  PlansSpec: the study-plan routes of those two users and *)
(* the cache in front of GET /study-plans/:id.                             *)
(*                                                                         *)
(* LimiterSpec: the limited routes /register and /login, called from one   *)
(* address whose requests the limiter counts and from addresses it has not *)
(* seen; Spec issues every request from an address not seen before.        *)
(*                                                                         *)
(* Store assumptions: the tables behave as the SQL of the handlers reads:  *)
(* every inserted row gets a fresh primary key, positional parameters are  *)
(* bound in order, and the id that query() returns for an INSERT is the    *)
(* key of the inserted row.                                                *)
(*                                                                         *)
(* Time is counted in ticks of one JWT timestamp unit: jwt.sign stamps iat *)
(* with the clock truncated to that unit, so two tokens signed for the     *)
(* same payload within one tick are the same string.                       *)
(***************************************************************************)
EXTENDS Integers, Sequences, FiniteSets, TLC

\* ---------------------------------------------------------------- bounds
MaxUsers == 1
MaxSessions == 2
MaxTime == 2
MaxReqs == 1
MaxRegs == 2
MaxPwChanges == 1
MaxPlans == 1
\* lifetimes in ticks: of the refresh JWT, of a user_sessions row and of the access
\* JWT; the row runs out before its token does, so that both expiries are met
RefreshTTL == 2
SessionTTL == 1
AccessTTL == 1

UIds == 1..MaxUsers
ReqIds == 1..MaxReqs

RegIds == 1..MaxRegs

PlanIds == 1..MaxPlans

\* ------------------------------------------------------------ input sets
EmailInputs == {"a@x", "A@x", "b@x", "bad"}
PasswordInputs == {"pw1111", "pw2222"}

\* registration bodies: two that can coexist, one that collides with the first by
\* its e-mail once normalised, one that collides by its username, two invalid
RegistrationInputs ==
  {<<"a@x", "ann", "pw1111">>, <<"b@x", "bob", "pw2222">>,
   <<"A@x", "ann", "pw1111">>, <<"b@x", "ann", "pw2222">>,
   <<"bad", "ann", "pw1111">>, <<"a@x", "x", "pw1111">>}

VARIABLES
  users,          \* rows of table users
  sessions,       \* rows of table user_sessions
  nextUid,        \* next primary key of users
  nextSid,        \* next primary key of user_sessions
  now,            \* server clock, in ticks
  reqs,           \* login and refresh requests: in flight, or answered
  issuedRefresh,  \* refresh tokens handed to clients so far
  pwEpoch,        \* history: completed password changes per user id
  last,           \* the answer of the latest step, if it answered a register,
                  \* me or logout request or stopped a request at the limiter
  regs,           \* registrations in flight
  hits,           \* authLimiter: requests of address "same" counted in the window
  secrets,        \* the signing secrets that are set in the environment
  user,           \* client: the user state of AuthProvider ("none" for null)
  isLoading,      \* client: the isLoading state
  error,          \* client: the error state (an AuthError, or NoError for null)
  storage,        \* client: localStorage items accessToken and refreshToken
  proc,           \* client: the running calls of the operations
  plans,          \* rows of table study_plans
  cache,          \* redis: the entries study_plan:<id>
  gets,           \* GET /study-plans/:id requests in flight
  shown           \* the answer of the latest step, if it answered a study-plan request

svars ==
  <<users, sessions, nextUid, nextSid, now, reqs, issuedRefresh, pwEpoch, last, regs, hits,
    secrets>>

cvars == <<user, isLoading, error, storage, proc>>

pvars == <<plans, cache, gets, shown>>

vars == <<svars, cvars, pvars>>

\* ------------------------------------------------------------ primitives
\* bcrypt.hash salts its input: the hash is not the input
BcryptHash(plain, salt) == [alg |-> "bcrypt", salt |-> salt, of |-> plain]

BcryptCompare(plain, hash) == hash.of = plain

NoToken == [userId |-> 0, type |-> "none", iat |-> 0, exp |-> 0, key |-> "none"]

\* a token no secret of the server signed
BadToken == [userId |-> 1, type |-> "refresh", iat |-> 0, exp |-> RefreshTTL, key |-> "forged"]

\* jwt.sign(payload, secret, {expiresIn}): deterministic in payload, secret and clock
JwtSign(userId, type, secret, ttl, clock) ==
  [userId |-> userId, type |-> type, iat |-> clock, exp |-> clock + ttl, key |-> secret]

\* jwt.verify: the signature is checked first, then the expiry
JwtVerify(token, secret, clock) ==
  IF token.key # secret THEN "invalid signature"
  ELSE IF clock >= token.exp THEN "jwt expired"
  ELSE "ok"

\* express-validator normalizeEmail lower-cases the address
NormalizeEmail(e) == IF e = "A@x" THEN "a@x" ELSE e

IsEmail(e) == e # "bad"

IsUsername(u) == u # "x"

\* ----------------------------------------------------------------- errors
CreateError(message, status, code) == [status |-> status, message |-> message, code |-> code]

BadRequestError(m) == CreateError(m, 400, "BAD_REQUEST")

UnauthorizedError(m) == CreateError(m, 401, "UNAUTHORIZED")

ForbiddenError(m) == CreateError(m, 403, "FORBIDDEN")

NotFoundError(m) == CreateError(m, 404, "NOT_FOUND")

ConflictError(m) == CreateError(m, 409, "CONFLICT")

ValidationError(m) == CreateError(m, 422, "VALIDATION_ERROR")

InternalServerError(m) == CreateError(m, 500, "INTERNAL_SERVER_ERROR")

\* a database driver error: no statusCode, no application code
DriverError(m) == CreateError(m, 500, "none")

\* the response of errorHandler: the status, and error.message and error.code in
\* the body (gate is history: the check of the handler that failed)
ErrorHandler(err, gate) ==
  [status |-> err.status, message |-> err.message, code |-> err.code, gate |-> gate,
   hasToken |-> FALSE, retryAfter |-> 0]

\* res.status(status).json({success: true, message, data})
Success(status, message, hasToken) ==
  [status |-> status, message |-> message, code |-> "none", gate |-> "ok",
   hasToken |-> hasToken, retryAfter |-> 0]

\* what a caller reads of a response
Body(resp) == [status |-> resp.status, message |-> resp.message, code |-> resp.code]

NoResp ==
  [status |-> 0, message |-> "", code |-> "none", gate |-> "none", hasToken |-> FALSE,
   retryAfter |-> 0]

\* ------------------------------------------------------------- authLimiter
\* max: requests of one address that a window lets through
Budget == 5

\* message.retryAfter, in seconds
RetryAfterSecs == 900

\* variant: the count is compared before the request is counted
LimitedLate(count) == count > Budget

\* express-rate-limit counts the request, then throttles it when the count
\* exceeds max; count is the number of requests counted before this one
Limited(count) == count + 1 > Budget

\* the counter after one more request (counts above Budget + 1 are all alike)
Bump(count) == IF count > Budget THEN count ELSE count + 1

\* the limiter keeps one counter per source address: the requests of address
\* "same" share a counter, a request from address "fresh" comes from an address
\* that sent nothing else in the window
Addresses == {"same", "fresh"}

Counted(addr) == IF addr = "same" THEN hits ELSE 0

CountedAfter(addr) == IF addr = "same" THEN Bump(hits) ELSE hits

\* the response of the limiter: status 429 and the configured message object,
\* which has no message and no code property
RateLimited ==
  [status |-> 429, message |-> "", code |-> "none", gate |-> "limit", hasToken |-> FALSE,
   retryAfter |-> RetryAfterSecs]

NoRow == [id |-> 0]

\* a request answered within one step: op names the route, resp is the response,
\* tok the access token a registration issued, email
\* and username the user record of the response body; subEmail and subUsername
\* are history (the e-mail and username as the registration submitted them)
NoLast ==
  [op |-> "none", resp |-> NoResp, tok |-> NoToken, email |-> "", username |-> "",
   subEmail |-> "", subUsername |-> ""]

Answered(op, resp, tok) == [NoLast EXCEPT !.op = op, !.resp = resp, !.tok = tok]

\* a request: op and pc say where it stands; uid, tok and match are the locals
\* of the handler; resp is the response once answered; at, ep, late and streak
\* are history (the time of the session read, the password epoch the login
\* authenticated under, whether a logout with the presented token had
\* invalidated a session before the request, the run of successful refreshes
\* with one token)
IdleReq ==
  [op |-> "none", pc |-> "idle", uid |-> 0, tok |-> NoToken, match |-> NoRow, at |-> 0,
   ep |-> 0, late |-> FALSE, streak |-> 0, resp |-> NoResp]

\* a new request takes the first slot that holds no request in flight
Free(r) ==
  /\ reqs[r].pc \in {"idle", "done"}
  /\ \A q \in ReqIds : q < r => reqs[q].pc \notin {"idle", "done"}

\* a response is read in the state after the step that sent it; the next step of
\* the server finds the slot empty
Sent == [q \in ReqIds |-> IF reqs[q].pc = "done" THEN IdleReq ELSE reqs[q]]

\* request r is answered
Answer(r, req) == [Sent EXCEPT ![r] = req]

\* ----------------------------------------------------------------- tables
UserByEmail(email) == {u \in users : u.email = email}

UserById(id) == {u \in users : u.id = id}

\* variant: the SELECT without its is_active condition
SelectSessionsAnyFlag(userId) ==
  {s \in sessions : s.user_id = userId /\ s.expires_at > now}

\* SELECT ... FROM user_sessions WHERE user_id = $1 AND is_active = true
\*   AND expires_at > CURRENT_TIMESTAMP
SelectActiveSessions(userId) ==
  {s \in sessions : s.user_id = userId /\ s.is_active /\ s.expires_at > now}

\* variant: the SELECT without its user_id condition
SelectLogoutSessionsAnyUser(userId) ==
  {s \in sessions : s.is_active}

\* SELECT ... FROM user_sessions WHERE user_id = $1 AND is_active = true
SelectLogoutSessions(userId) ==
  {s \in sessions : s.user_id = userId /\ s.is_active}

\* the for-loop over the rows: the first row whose hash matches, in key order
FirstMatch(rows, token) ==
  LET matching == {s \in rows : BcryptCompare(token, s.refresh_token_hash)}
  IN IF matching = {} THEN NoRow
     ELSE CHOOSE s \in matching : \A t \in matching : s.id <= t.id

\* UPDATE user_sessions SET is_active = false WHERE id = $1
\* (byLogout is history: the row was invalidated by a logout with its token)
InvalidateById(id, logout) ==
  {IF s.id = id THEN [s EXCEPT !.is_active = FALSE, !.byLogout = logout \/ @] ELSE s :
     s \in sessions}

\* UPDATE user_sessions SET is_active = false WHERE user_id = $1
InvalidateAll(userId) ==
  {IF s.user_id = userId THEN [s EXCEPT !.is_active = FALSE] ELSE s : s \in sessions}

\* INSERT INTO user_sessions (user_id, refresh_token_hash, expires_at, ...)
\* (ep is history: the password epoch under which the login authenticated)
NewSession(userId, refreshToken, epoch) ==
  [id |-> nextSid, user_id |-> userId,
   refresh_token_hash |-> BcryptHash(refreshToken, nextSid),
   expires_at |-> now + SessionTTL, is_active |-> TRUE, ep |-> epoch,
   byLogout |-> FALSE]

Secrets == {"JWT_SECRET", "JWT_REFRESH_SECRET"}

\* generateTokens throws unless both secrets are set
Configured == Secrets \subseteq secrets

\* generateTokens
GenerateTokens(userId) ==
  [accessToken |-> JwtSign(userId, "access", "access", AccessTTL, now),
   refreshToken |-> JwtSign(userId, "refresh", "refresh", RefreshTTL, now)]

PendingLogins == Cardinality({r \in ReqIds : reqs[r].pc = "login2"})

\* a registration in flight: the body as validated (the e-mail normalised); sub is
\* history (the e-mail as submitted)
IdleReg == [pc |-> "idle", email |-> "", username |-> "", password |-> "", sub |-> ""]

FreeReg(g) ==
  /\ regs[g].pc = "idle"
  /\ \A q \in RegIds : q < g => regs[q].pc # "idle"

\* the e-mails of the registrations in flight
PendingEmails == {regs[g].email : g \in {q \in RegIds : regs[q].pc = "hash"}}

\* history: a logout called with this token has invalidated a session
LoggedOut(token) ==
  \E s \in sessions : s.byLogout /\ BcryptCompare(token, s.refresh_token_hash)

\* ------------------------------------------------------------------ Init
InitServer ==
  /\ users = {}
  /\ sessions = {}
  /\ nextUid = 1
  /\ nextSid = 1
  /\ now = 0
  /\ reqs = [r \in ReqIds |-> IdleReq]
  /\ issuedRefresh = {}
  /\ pwEpoch = [u \in UIds |-> 0]
  /\ last = NoLast
  /\ regs = [g \in RegIds |-> IdleReg]
  /\ hits = 0

\* ------------------------------------------------------- POST /auth/register
RegisterGate(email, username, password) ==
  IF ~IsEmail(email) THEN "email"
  ELSE IF ~IsUsername(username) THEN "username"
  ELSE IF UserByEmail(NormalizeEmail(email)) # {} \/ {u \in users : u.username = username} # {}
       THEN "conflict"
  ELSE "ok"

RegisterError(gate) ==
  IF gate = "email" THEN ValidationError("Please provide a valid email address")
  ELSE IF gate = "username"
       THEN ValidationError("Username must be 3-30 characters and contain only letters, numbers, and underscores")
  ELSE ConflictError("User with this email or username already exists")

\* authLimiter, validation, SELECT of a user with the e-mail or the username; then
\* bcrypt.hash is awaited
RegisterCheck(g, addr, email, username, password) ==
  /\ FreeReg(g)
  /\ hits' = CountedAfter(addr)
  /\ LET gate == RegisterGate(email, username, password)
         load == Cardinality(PendingEmails \cup {NormalizeEmail(email)})
     IN IF Limited(Counted(addr))
        THEN /\ last' = Answered("register", RateLimited, NoToken)
             /\ UNCHANGED regs
        ELSE IF gate # "ok"
        THEN /\ last' = Answered("register", ErrorHandler(RegisterError(gate), gate), NoToken)
             /\ UNCHANGED regs
        ELSE /\ (nextUid - 1) + load <= MaxUsers
             /\ nextSid + PendingLogins + (load - 1) <= MaxSessions
             /\ regs' = [regs EXCEPT ![g] =
                  [pc |-> "hash", email |-> NormalizeEmail(email), username |-> username,
                   password |-> password, sub |-> email]]
             /\ last' = NoLast
  /\ reqs' = Sent
  /\ UNCHANGED <<users, sessions, nextUid, nextSid, now, issuedRefresh, pwEpoch, secrets>>
  /\ UNCHANGED <<cvars, pvars>>

\* the INSERTs into users and user_preferences, generateTokens, the INSERT into
\* user_sessions, 201; the statements of the driver are synchronous, the
\* preferences row goes with the user row
RegisterInsert(g) ==
  /\ regs[g].pc = "hash"
  /\ LET b == regs[g]
         t == GenerateTokens(nextUid)
         row == [id |-> nextUid, email |-> b.email, username |-> b.username,
                 password_hash |-> BcryptHash(b.password, nextUid),
                 is_active |-> TRUE, is_verified |-> FALSE]
     IN IF UserByEmail(b.email) # {} \/ {u \in users : u.username = b.username} # {}
        THEN \* the UNIQUE constraint of users rejects the row
             /\ last' = Answered("register",
                           ErrorHandler(DriverError("UNIQUE constraint failed"), "unique"),
                           NoToken)
             /\ UNCHANGED <<users, nextUid, sessions, nextSid, issuedRefresh>>
        ELSE /\ nextUid <= MaxUsers
             /\ users' = users \cup {row}
             /\ nextUid' = nextUid + 1
             /\ IF ~Configured
                THEN /\ last' = Answered("register",
                              ErrorHandler(InternalServerError("Server configuration error"),
                                           "config"), NoToken)
                     /\ UNCHANGED <<sessions, nextSid, issuedRefresh>>
                ELSE /\ nextSid + PendingLogins <= MaxSessions
                     /\ sessions' = sessions \cup {NewSession(nextUid, t.refreshToken, 0)}
                     /\ nextSid' = nextSid + 1
                     /\ issuedRefresh' = issuedRefresh \cup {t.refreshToken}
                     /\ last' = [Answered("register",
                                          Success(201, "User registered successfully", TRUE),
                                          t.accessToken)
                                   EXCEPT !.email = row.email, !.username = row.username,
                                          !.subEmail = b.sub, !.subUsername = b.username]
  /\ regs' = [regs EXCEPT ![g] = IdleReg]
  /\ reqs' = Sent
  /\ UNCHANGED <<now, pwEpoch, hits, secrets>>
  /\ UNCHANGED <<cvars, pvars>>

\* ---------------------------------------------------------- POST /auth/login
\* the gates up to and including the password comparison
LoginGate(email, password) ==
  LET rows == UserByEmail(NormalizeEmail(email))
  IN IF ~IsEmail(email) THEN "validation"
     ELSE IF rows = {} THEN "nouser"
     ELSE LET row == CHOOSE u \in rows : TRUE
          IN IF ~row.is_active THEN "deactivated"
             ELSE IF ~BcryptCompare(password, row.password_hash) THEN "badpw"
             ELSE "ok"

\* variant: the unknown e-mail is answered as such
LoginErrorNaming(gate) ==
  IF gate = "validation" THEN ValidationError("Please provide a valid email address")
  ELSE IF gate = "nouser" THEN UnauthorizedError("User not found")
  ELSE IF gate = "deactivated" THEN UnauthorizedError("Account is deactivated")
  ELSE UnauthorizedError("Invalid email or password")

LoginError(gate) ==
  IF gate = "validation" THEN ValidationError("Please provide a valid email address")
  ELSE IF gate = "nouser" THEN UnauthorizedError("Invalid email or password")
  ELSE IF gate = "deactivated" THEN UnauthorizedError("Account is deactivated")
  ELSE UnauthorizedError("Invalid email or password")

\* the response of a login that fails one of these gates
LoginRejection(email, password) ==
  ErrorHandler(LoginError(LoginGate(email, password)), LoginGate(email, password))

\* validation, SELECT of the user row, active check, bcrypt.compare
LoginCheck(r, addr, email, password) ==
  /\ Free(r)
  /\ hits' = CountedAfter(addr)
  /\ LET gate == LoginGate(email, password)
     IN IF Limited(Counted(addr))
        THEN reqs' = Answer(r, [IdleReq EXCEPT !.op = "login", !.pc = "done",
                                               !.resp = RateLimited])
        ELSE IF gate # "ok"
        THEN reqs' = Answer(r, [IdleReq EXCEPT !.op = "login", !.pc = "done",
                                               !.resp = LoginRejection(email, password)])
        ELSE LET row == CHOOSE u \in UserByEmail(NormalizeEmail(email)) : TRUE
             IN /\ nextSid + PendingLogins + Cardinality(PendingEmails) <= MaxSessions
                /\ reqs' = [Sent EXCEPT ![r] =
                     [IdleReq EXCEPT !.op = "login", !.pc = "login2", !.uid = row.id,
                                     !.ep = pwEpoch[row.id]]]
  /\ UNCHANGED <<users, sessions, nextUid, nextSid, now, issuedRefresh, pwEpoch, regs, secrets>>
  /\ last' = NoLast
  /\ UNCHANGED <<cvars, pvars>>

\* UPDATE of last_login, generateTokens, INSERT INTO user_sessions, 200
LoginIssue(r) ==
  /\ reqs[r].pc = "login2"
  /\ LET uid == reqs[r].uid
         t == GenerateTokens(uid)
     IN IF ~Configured
        THEN /\ reqs' = Answer(r, [IdleReq EXCEPT !.op = "login", !.pc = "done",
                     !.resp = ErrorHandler(InternalServerError("Server configuration error"),
                                           "config")])
             /\ UNCHANGED <<sessions, nextSid, issuedRefresh>>
        ELSE IF UserById(uid) = {}
        THEN \* the session row references a user that is gone
             /\ reqs' = Answer(r, [IdleReq EXCEPT !.op = "login", !.pc = "done",
                     !.resp = ErrorHandler(DriverError("foreign key violation"), "fk")])
             /\ UNCHANGED <<sessions, nextSid, issuedRefresh>>
        ELSE /\ sessions' = sessions \cup {NewSession(uid, t.refreshToken, reqs[r].ep)}
             /\ nextSid' = nextSid + 1
             /\ issuedRefresh' = issuedRefresh \cup {t.refreshToken}
             /\ reqs' = Answer(r, [IdleReq EXCEPT !.op = "login", !.pc = "done",
                     !.resp = Success(200, "Login successful", TRUE)])
  /\ UNCHANGED <<users, nextUid, now, pwEpoch, regs, hits, secrets>>
  /\ last' = NoLast
  /\ UNCHANGED <<cvars, pvars>>

\* -------------------------------------------------------- POST /auth/refresh
\* the gates up to and including the hash scan
RefreshGate(token) ==
  IF token = NoToken THEN "missing"
  ELSE IF "JWT_REFRESH_SECRET" \notin secrets THEN "config"
  ELSE IF JwtVerify(token, "refresh", now) = "jwt expired" THEN "expired"
  ELSE IF JwtVerify(token, "refresh", now) # "ok" THEN "signature"
  ELSE IF token.userId = 0 \/ token.type # "refresh" THEN "malformed"
  ELSE IF SelectActiveSessions(token.userId) = {} THEN "nosession"
  ELSE IF FirstMatch(SelectActiveSessions(token.userId), token) = NoRow THEN "nomatch"
  ELSE "ok"

RefreshError(gate) ==
  IF gate = "missing" THEN BadRequestError("Refresh token is required")
  ELSE IF gate = "config" THEN InternalServerError("Server configuration error")
  ELSE IF gate = "expired" THEN UnauthorizedError("Refresh token has expired")
  ELSE IF gate = "signature" THEN UnauthorizedError("Invalid refresh token signature")
  ELSE IF gate = "malformed" THEN UnauthorizedError("Invalid refresh token")
  ELSE IF gate = "nosession" THEN UnauthorizedError("Invalid or expired refresh token")
  ELSE IF gate = "nomatch" THEN UnauthorizedError("Invalid refresh token")
  ELSE UnauthorizedError("User account is not active")

\* the response of a refresh that fails one of these gates
RefreshRejection(token) == ErrorHandler(RefreshError(RefreshGate(token)), RefreshGate(token))

\* history: the successful refreshes in a row that presented this token
Streak(r, token) ==
  IF reqs[r].op = "refresh" /\ reqs[r].pc = "done" /\ reqs[r].resp.status = 200
     /\ reqs[r].tok = token
  THEN reqs[r].streak
  ELSE 0

\* jwt.verify, claim check, SELECT of the active sessions, hash scan
RefreshScan(r, token) ==
  /\ Free(r)
  /\ IF RefreshGate(token) # "ok"
     THEN reqs' = Answer(r, [IdleReq EXCEPT !.op = "refresh", !.pc = "done", !.tok = token,
                            !.late = LoggedOut(token), !.resp = RefreshRejection(token)])
     ELSE reqs' = [Sent EXCEPT ![r] =
            [IdleReq EXCEPT !.op = "refresh", !.pc = "refresh2", !.uid = token.userId,
                            !.tok = token, !.at = now, !.late = LoggedOut(token),
                            !.streak = Streak(r, token),
                            !.match = FirstMatch(SelectActiveSessions(token.userId), token)]]
  /\ UNCHANGED <<users, sessions, nextUid, nextSid, now, issuedRefresh, pwEpoch, regs,
                 hits, secrets>>
  /\ last' = NoLast
  /\ UNCHANGED <<cvars, pvars>>

\* variant: a refresh that rotates, the matched session is spent by the success
RefreshFinishRotating(r) ==
  /\ reqs[r].pc = "refresh2"
  /\ LET rows == UserById(reqs[r].uid)
         inactive == rows = {} \/ \E u \in rows : ~u.is_active
     IN IF inactive
        THEN /\ sessions' = InvalidateById(reqs[r].match.id, FALSE)
             /\ reqs' = Answer(r, [reqs[r] EXCEPT !.pc = "done", !.streak = 0,
                            !.resp = ErrorHandler(RefreshError("inactive"), "inactive")])
        ELSE IF "JWT_SECRET" \notin secrets
        THEN /\ reqs' = Answer(r, [reqs[r] EXCEPT !.pc = "done", !.streak = 0,
                            !.resp = ErrorHandler(RefreshError("config"), "config")])
             /\ UNCHANGED sessions
        ELSE /\ reqs' = Answer(r, [reqs[r] EXCEPT !.pc = "done",
                            !.streak = IF @ < 2 THEN @ + 1 ELSE 2,
                            !.resp = Success(200, "Token refreshed successfully", TRUE)])
             /\ sessions' = InvalidateById(reqs[r].match.id, FALSE)
  /\ UNCHANGED <<users, nextUid, nextSid, now, issuedRefresh, pwEpoch, regs, hits, secrets>>
  /\ last' = NoLast
  /\ UNCHANGED <<cvars, pvars>>

\* SELECT of the user, then invalidation of the matched session or a new access token
RefreshFinish(r) ==
  /\ reqs[r].pc = "refresh2"
  /\ LET rows == UserById(reqs[r].uid)
         inactive == rows = {} \/ \E u \in rows : ~u.is_active
     IN IF inactive
        THEN /\ sessions' = InvalidateById(reqs[r].match.id, FALSE)
             /\ reqs' = Answer(r, [reqs[r] EXCEPT !.pc = "done", !.streak = 0,
                            !.resp = ErrorHandler(RefreshError("inactive"), "inactive")])
        ELSE IF "JWT_SECRET" \notin secrets
        THEN /\ reqs' = Answer(r, [reqs[r] EXCEPT !.pc = "done", !.streak = 0,
                            !.resp = ErrorHandler(RefreshError("config"), "config")])
             /\ UNCHANGED sessions
        ELSE /\ reqs' = Answer(r, [reqs[r] EXCEPT !.pc = "done",
                            !.streak = IF @ < 2 THEN @ + 1 ELSE 2,
                            !.resp = Success(200, "Token refreshed successfully", TRUE)])
             /\ UNCHANGED sessions
  /\ UNCHANGED <<users, nextUid, nextSid, now, issuedRefresh, pwEpoch, regs, hits, secrets>>
  /\ last' = NoLast
  /\ UNCHANGED <<cvars, pvars>>

\* ---------------------------------------------------------- authenticateToken
\* variant: a token is accepted only while its user has an active session
AuthGateWithSession(access) ==
  IF access = NoToken THEN "notoken"
  ELSE IF "JWT_SECRET" \notin secrets THEN "config"
  ELSE IF JwtVerify(access, "access", now) # "ok" THEN "badtoken"
  ELSE IF SelectActiveSessions(access.userId) = {} THEN "badtoken"
  ELSE IF UserById(access.userId) = {} THEN "nouser"
  ELSE IF \E u \in UserById(access.userId) : ~u.is_active THEN "deactivated"
  ELSE "ok"

AuthGate(access) ==
  IF access = NoToken THEN "notoken"
  ELSE IF "JWT_SECRET" \notin secrets THEN "config"
  ELSE IF JwtVerify(access, "access", now) # "ok" THEN "badtoken"
  ELSE IF UserById(access.userId) = {} THEN "nouser"
  ELSE IF \E u \in UserById(access.userId) : ~u.is_active THEN "deactivated"
  ELSE "ok"

AuthError(gate) ==
  IF gate = "notoken" THEN UnauthorizedError("Access token is required")
  ELSE IF gate = "badtoken" THEN UnauthorizedError("Invalid token")
  ELSE IF gate = "nouser" THEN UnauthorizedError("User not found")
  ELSE IF gate = "config" THEN InternalServerError("Server configuration error")
  ELSE ForbiddenError("User account is deactivated")

\* ------------------------------------------------------------ GET /auth/me
Me(access) ==
  /\ IF AuthGate(access) # "ok"
     THEN last' = Answered("me", ErrorHandler(AuthError(AuthGate(access)), AuthGate(access)),
                           NoToken)
     ELSE LET row == CHOOSE u \in UserById(access.userId) : TRUE
          IN last' = [Answered("me", Success(200, "", FALSE), NoToken)
                        EXCEPT !.email = row.email, !.username = row.username]
  /\ reqs' = Sent
  /\ UNCHANGED <<users, sessions, nextUid, nextSid, now, issuedRefresh, pwEpoch, regs, hits,
                 secrets>>
  /\ UNCHANGED <<cvars, pvars>>

\* --------------------------------------------------------- POST /auth/logout
Logout(access, token, storeFails) ==
  /\ LET userId == access.userId
         hit == FirstMatch(SelectLogoutSessions(userId), token)
     IN IF AuthGate(access) # "ok"
        THEN /\ token = NoToken /\ ~storeFails
             /\ UNCHANGED sessions
             /\ last' = Answered("logout", ErrorHandler(AuthError(AuthGate(access)),
                                                       AuthGate(access)), NoToken)
        ELSE /\ storeFails => token = NoToken
             /\ IF storeFails
                THEN \* the inner try block threw: logged, nothing invalidated
                     UNCHANGED sessions
                ELSE IF token # NoToken
                     THEN sessions' = IF hit = NoRow THEN sessions
                                      ELSE InvalidateById(hit.id, TRUE)
                     ELSE sessions' = InvalidateAll(userId)
             /\ last' = Answered("logout", Success(200, "Logout successful", FALSE), NoToken)
  /\ reqs' = Sent
  /\ UNCHANGED <<users, nextUid, nextSid, now, issuedRefresh, pwEpoch, regs, hits, secrets>>
  /\ UNCHANGED <<cvars, pvars>>

\* ------------------------------------------------------- PUT /users/password
PasswordGate(access, currentPassword) ==
  IF AuthGate(access) # "ok" THEN AuthGate(access)
  ELSE LET row == CHOOSE u \in UserById(access.userId) : TRUE
       IN IF ~row.is_verified THEN "unverified"
          ELSE IF ~BcryptCompare(currentPassword, row.password_hash) THEN "badpw"
          ELSE "ok"

PasswordError(gate) ==
  IF gate = "unverified" THEN ForbiddenError("Email verification required")
  ELSE IF gate = "badpw" THEN BadRequestError("Current password is incorrect")
  ELSE AuthError(gate)

ChangePassword(access, currentPassword, newPassword) ==
  /\ LET userId == access.userId
     IN IF PasswordGate(access, currentPassword) # "ok"
        THEN newPassword = currentPassword /\ UNCHANGED <<users, sessions, pwEpoch>>
        ELSE /\ pwEpoch[userId] < MaxPwChanges
             /\ users' = {IF u.id = userId
                          THEN [u EXCEPT !.password_hash = BcryptHash(newPassword, userId)]
                          ELSE u : u \in users}
             /\ sessions' = InvalidateAll(userId)
             /\ pwEpoch' = [pwEpoch EXCEPT ![userId] = @ + 1]
  /\ reqs' = Sent
  /\ UNCHANGED <<nextUid, nextSid, now, issuedRefresh, regs, hits, secrets>>
  /\ last' = NoLast
  /\ UNCHANGED <<cvars, pvars>>

\* ------------------------------------------------------ DELETE /users/account
DeleteAccount(access, password) ==
  /\ LET userId == access.userId
     IN IF PasswordGate(access, password) # "ok"
        THEN UNCHANGED <<users, sessions>>
        ELSE \* DELETE FROM users; the user_sessions rows go with ON DELETE CASCADE
             /\ users' = {u \in users : u.id # userId}
             /\ sessions' = {s \in sessions : s.user_id # userId}
  /\ reqs' = Sent
  /\ UNCHANGED <<nextUid, nextSid, now, issuedRefresh, pwEpoch, regs, hits, secrets>>
  /\ last' = NoLast
  /\ UNCHANGED <<cvars, pvars>>

\* ------------------------------------------------------------- environment
Tick ==
  /\ now < MaxTime
  /\ now' = now + 1
  /\ reqs' = Sent
  /\ UNCHANGED <<users, sessions, nextUid, nextSid, issuedRefresh, pwEpoch, regs, hits,
                 secrets>>
  /\ last' = NoLast
  /\ UNCHANGED <<cvars, pvars>>

\* the window of the limiter ends: its store forgets the counts
WindowReset ==
  /\ hits > 0
  /\ hits' = 0
  /\ reqs' = Sent
  /\ last' = NoLast
  /\ UNCHANGED <<users, sessions, nextUid, nextSid, now, issuedRefresh, pwEpoch, regs, secrets>>
  /\ UNCHANGED <<cvars, pvars>>

\* the is_verified column is set outside the request handlers
VerifyEmail(id) ==
  /\ \E u \in users : u.id = id /\ ~u.is_verified
  /\ users' = {IF u.id = id THEN [u EXCEPT !.is_verified = TRUE] ELSE u : u \in users}
  /\ reqs' = Sent
  /\ UNCHANGED <<sessions, nextUid, nextSid, now, issuedRefresh, pwEpoch, regs, hits, secrets>>
  /\ last' = NoLast
  /\ UNCHANGED <<cvars, pvars>>

\* the is_active column of a user is cleared outside the request handlers
Deactivate(id) ==
  /\ \E u \in users : u.id = id /\ u.is_active
  /\ users' = {IF u.id = id THEN [u EXCEPT !.is_active = FALSE] ELSE u : u \in users}
  /\ reqs' = Sent
  /\ UNCHANGED <<sessions, nextUid, nextSid, now, issuedRefresh, pwEpoch, regs, hits, secrets>>
  /\ last' = NoLast
  /\ UNCHANGED <<cvars, pvars>>

\* ======================================================================
\* Client: AuthProvider
\* ======================================================================
\* DEFAULT_RETRY_CONFIG.maxRetries
MaxRetries == 3

\* DEFAULT_RETRY_CONFIG.baseDelay and maxDelay, in milliseconds
BaseDelay == 1000

MaxDelay == 8000

\* Math.random() * 1000 lies in [0, JitterRange); the least and the greatest whole
\* number of milliseconds it can add
JitterRange == 1000

Jitters == {0, JitterRange - 1}

Ops == {"login", "signup", "logout", "startup", "refresh"}

Statuses == {400, 401, 403, 404, 422, 429, 500, 502, 503, 504}

\* what one fetch can come to: a 2xx response; a response with an error status,
\* whose body has no readable message, a message, or a message that contains
\* the text INVALID_CREDENTIALS, and which may carry a retry-after header (in
\* seconds, 0 for none); or a rejection: a TypeError (the network failed), or
\* another exception whose message may contain the text fetch
Outcomes ==
  {[kind |-> "ok", status |-> 200, body |-> "plain", retryAfter |-> 0, name |-> "none",
    fetchMsg |-> FALSE]}
  \cup {[kind |-> "status", status |-> st, body |-> b, retryAfter |-> 0, name |-> "none",
         fetchMsg |-> FALSE] : st \in Statuses, b \in {"unparsable", "plain", "ic"}}
  \cup {[kind |-> "status", status |-> 429, body |-> b, retryAfter |-> 60, name |-> "none",
         fetchMsg |-> FALSE] : b \in {"unparsable", "plain"}}
  \cup {[kind |-> "throw", status |-> 0, body |-> "plain", retryAfter |-> 0, name |-> n,
         fetchMsg |-> f] : n \in {"TypeError", "Error"}, f \in BOOLEAN}

NoError == [type |-> "none", retryAfter |-> 0]

\* variant: the offline check is made only when there is no response
DetermineErrorTypeOnlineLast(online, status, name, fetchMsg) ==
  IF status # 0
  THEN CASE status = 401 -> "INVALID_CREDENTIALS"
         [] status = 403 -> "ACCOUNT_DEACTIVATED"
         [] status = 404 -> "ACCOUNT_NOT_FOUND"
         [] status = 422 -> "VALIDATION_ERROR"
         [] status = 429 -> "RATE_LIMITED"
         [] status \in {500, 502, 503, 504} -> "SERVER_ERROR"
         [] OTHER -> "UNKNOWN_ERROR"
  ELSE IF ~online \/ name = "TypeError" \/ fetchMsg THEN "NETWORK_ERROR"
  ELSE "UNKNOWN_ERROR"

\* determineErrorType(response, error); status 0 stands for no response
DetermineErrorType(online, status, name, fetchMsg) ==
  IF ~online THEN "NETWORK_ERROR"
  ELSE IF status # 0
       THEN CASE status = 401 -> "INVALID_CREDENTIALS"
              [] status = 403 -> "ACCOUNT_DEACTIVATED"
              [] status = 404 -> "ACCOUNT_NOT_FOUND"
              [] status = 422 -> "VALIDATION_ERROR"
              [] status = 429 -> "RATE_LIMITED"
              [] status \in {500, 502, 503, 504} -> "SERVER_ERROR"
              [] OTHER -> "UNKNOWN_ERROR"
  ELSE IF name = "TypeError" \/ fetchMsg THEN "NETWORK_ERROR"
  ELSE "UNKNOWN_ERROR"

\* createAuthError(response, error): the retry-after header is read only from a
\* 429 response whose body could be parsed
CreateAuthError(online, o) ==
  [type |-> DetermineErrorType(online, o.status, o.name, o.fetchMsg),
   retryAfter |-> IF o.status = 429 /\ o.body # "unparsable" THEN o.retryAfter * 1000 ELSE 0]

\* the exception the operation throws: authFetch wraps an error response into an
\* Error that carries the AuthError and has its message; a rejection of fetch is
\* thrown as it is (ic: the message contains the text INVALID_CREDENTIALS; net:
\* fetch was rejected and the rejection classifies as a network error)
Thrown(online, o) ==
  IF o.kind = "status"
  THEN [auth |-> TRUE, authError |-> CreateAuthError(online, o), ic |-> o.body = "ic",
        net |-> FALSE]
  ELSE [auth |-> FALSE, authError |-> NoError, ic |-> FALSE,
        net |-> CreateAuthError(online, o).type = "NETWORK_ERROR"]

\* variant: the AuthError that authFetch attached is not used
AuthErrorOfRejection(online, o) ==
  [type |-> DetermineErrorType(online, 0, o.name, o.fetchMsg), retryAfter |-> 0]

\* error.authError || await createAuthError(null, error)
AuthErrorOf(online, o) ==
  IF Thrown(online, o).auth THEN Thrown(online, o).authError ELSE CreateAuthError(online, o)

\* variant: the loop gives up one attempt early
RetryDecisionShort(ic, attempt) ==
  IF ic THEN "throw"
  ELSE IF attempt + 1 = MaxRetries THEN "throw"
  ELSE "wait"

\* the catch block of retryWithBackoff: rethrow, or wait and try again
RetryDecision(ic, attempt) ==
  IF ic THEN "throw"
  ELSE IF attempt = MaxRetries THEN "throw"
  ELSE "wait"

Min(a, b) == IF a < b THEN a ELSE b

\* variant: the delay grows by baseDelay with each attempt
BackoffDelayLinear(attempt) == Min(BaseDelay * (attempt + 1), MaxDelay)

\* Math.min(config.baseDelay * Math.pow(2, attempt), config.maxDelay)
BackoffDelay(attempt) == Min(BaseDelay * 2^attempt, MaxDelay)

\* a call of an operation: attempt is the loop variable of retryWithBackoff;
\* calls, waits, kind and allNet are history (the fetches made, the backoff waits
\* begun, the kind of the last failure, whether every fetch so far failed with
\* a network error); of the startup check, rcalls and hadRefresh are history too
\* (the fetches of /auth/refresh it made, whether a refresh token was stored when
\* /auth/me had failed for good); of login, reset is history (logout has cleared
\* the state since the call began); delay is the time of the running backoff
\* timer, 0 when none runs
IdleProc ==
  [pc |-> "idle", attempt |-> 0, calls |-> 0, waits |-> 0, kind |-> "none", allNet |-> TRUE,
   rcalls |-> 0, hadRefresh |-> FALSE, reset |-> FALSE, delay |-> 0]

\* the calls after logout has written its reset: a login that is waiting for a
\* response or for its backoff timer has seen a reset
ResetSeen(p) ==
  [p EXCEPT !["login"] = [@ EXCEPT !.reset = @ \/ p["login"].pc \in {"fetch", "wait"}]]

Started == [IdleProc EXCEPT !.pc = "fetch"]

\* setTimeout(resolve, jitteredDelay) after the failure of attempt p.attempt
Waiting(p, jitter) == [p EXCEPT !.delay = BackoffDelay(p.attempt) + jitter]

Failed(p, online, o) ==
  [p EXCEPT !.calls = @ + 1,
            !.kind = DetermineErrorType(online, o.status, o.name, o.fetchMsg),
            !.allNet = @ /\ Thrown(online, o).net]

\* variant: only the access token is removed
ClearedAccessOnly == [accessToken |-> "none", refreshToken |-> storage.refreshToken]

\* localStorage after removeItem of both items
Cleared == [accessToken |-> "none", refreshToken |-> "none"]

\* variant: the items are removed only when the remote call succeeded
StorageKeptOnFailure(remoteOk) == IF remoteOk THEN Cleared ELSE storage

\* localStorage after logout: both items are removed whatever the remote call did
StorageAfterLogout(remoteOk) == Cleared

InitClient ==
  /\ user = "none"
  /\ isLoading = TRUE
  /\ error = NoError
  /\ proc = [op \in Ops |-> IdleProc]

\* login: setIsLoading(true), setError(null), then the first attempt is due
LoginStart ==
  /\ proc["login"].pc \in {"idle", "done", "failed"}
  /\ isLoading' = TRUE
  /\ error' = NoError
  /\ proc' = [proc EXCEPT !["login"] = Started]
  /\ UNCHANGED <<user, storage>>
  /\ UNCHANGED <<svars, pvars>>

\* one attempt of login comes back
LoginFetch(online, o) ==
  /\ proc["login"].pc = "fetch"
  /\ LET p == proc["login"]
     IN IF o.kind = "ok"
        THEN /\ storage' = [accessToken |-> "new", refreshToken |-> "new"]
             /\ user' = "user"
             /\ error' = NoError
             /\ isLoading' = FALSE
             /\ proc' = [proc EXCEPT !["login"] =
                  [p EXCEPT !.pc = "done", !.calls = @ + 1, !.allNet = FALSE]]
        ELSE IF RetryDecision(Thrown(online, o).ic, p.attempt) = "wait"
        THEN /\ \E j \in Jitters : proc' = [proc EXCEPT !["login"] =
                  Waiting([Failed(p, online, o) EXCEPT !.pc = "wait", !.waits = @ + 1], j)]
             /\ UNCHANGED <<user, isLoading, error, storage>>
        ELSE /\ error' = AuthErrorOf(online, o)
             /\ isLoading' = FALSE
             /\ proc' = [proc EXCEPT !["login"] = [Failed(p, online, o) EXCEPT !.pc = "failed"]]
             /\ UNCHANGED <<user, storage>>
  /\ UNCHANGED <<svars, pvars>>

\* signup: setIsLoading(true), setError(null), then the first attempt is due
SignupStart ==
  /\ proc["signup"].pc \in {"idle", "done", "failed"}
  /\ isLoading' = TRUE
  /\ error' = NoError
  /\ proc' = [proc EXCEPT !["signup"] = Started]
  /\ UNCHANGED <<user, storage>>
  /\ UNCHANGED <<svars, pvars>>

\* one attempt of signup comes back
SignupFetch(online, o) ==
  /\ proc["signup"].pc = "fetch"
  /\ LET p == proc["signup"]
     IN IF o.kind = "ok"
        THEN /\ storage' = [accessToken |-> "new", refreshToken |-> "new"]
             /\ user' = "user"
             /\ error' = NoError
             /\ isLoading' = FALSE
             /\ proc' = [proc EXCEPT !["signup"] =
                  [p EXCEPT !.pc = "done", !.calls = @ + 1, !.allNet = FALSE]]
        ELSE IF RetryDecision(Thrown(online, o).ic, p.attempt) = "wait"
        THEN /\ \E j \in Jitters : proc' = [proc EXCEPT !["signup"] =
                  Waiting([Failed(p, online, o) EXCEPT !.pc = "wait", !.waits = @ + 1], j)]
             /\ UNCHANGED <<user, isLoading, error, storage>>
        ELSE /\ error' = AuthErrorOf(online, o)
             /\ isLoading' = FALSE
             /\ proc' = [proc EXCEPT !["signup"] = [Failed(p, online, o) EXCEPT !.pc = "failed"]]
             /\ UNCHANGED <<user, storage>>
  /\ UNCHANGED <<svars, pvars>>

\* the setTimeout of the backoff fires: next attempt
BackoffElapsed(op) ==
  /\ proc[op].pc \in {"wait", "rwait"}
  /\ proc' = [proc EXCEPT ![op] = [@ EXCEPT !.pc = IF @ = "wait" THEN "fetch" ELSE "rfetch",
                                            !.attempt = @ + 1, !.delay = 0]]
  /\ UNCHANGED <<user, isLoading, error, storage>>
  /\ UNCHANGED <<svars, pvars>>

\* logout: without both tokens in localStorage no request is made
LogoutStart ==
  /\ proc["logout"].pc \in {"idle", "done"}
  /\ IF storage.accessToken # "none" /\ storage.refreshToken # "none"
     THEN /\ proc' = [proc EXCEPT !["logout"] = Started]
          /\ UNCHANGED <<user, error, storage>>
     ELSE /\ user' = "none"
          /\ error' = NoError
          /\ storage' = StorageAfterLogout(TRUE)
          /\ proc' = ResetSeen([proc EXCEPT !["logout"] = [IdleProc EXCEPT !.pc = "done"]])
  /\ UNCHANGED isLoading
  /\ UNCHANGED <<svars, pvars>>

\* one attempt of the remote logout comes back
LogoutFetch(online, o) ==
  /\ proc["logout"].pc = "fetch"
  /\ LET p == proc["logout"]
     IN IF o.kind # "ok" /\ RetryDecision(Thrown(online, o).ic, p.attempt) = "wait"
        THEN /\ \E j \in Jitters : proc' = [proc EXCEPT !["logout"] =
                  Waiting([Failed(p, online, o) EXCEPT !.pc = "wait", !.waits = @ + 1], j)]
             /\ UNCHANGED <<user, error, storage>>
        ELSE /\ user' = "none"
             /\ error' = NoError
             /\ storage' = StorageAfterLogout(o.kind = "ok")
             /\ proc' = ResetSeen([proc EXCEPT !["logout"] =
                  IF o.kind = "ok"
                  THEN [p EXCEPT !.pc = "done", !.calls = @ + 1, !.allNet = FALSE]
                  ELSE [Failed(p, online, o) EXCEPT !.pc = "done"]])
  /\ UNCHANGED isLoading
  /\ UNCHANGED <<svars, pvars>>

\* the catch block of refreshTokenInternal: both items removed, no user, the error
\* of the failed call or TOKEN_REFRESH_FAILED
RefreshFailure(online, o) ==
  IF Thrown(online, o).auth THEN Thrown(online, o).authError
  ELSE [type |-> "TOKEN_REFRESH_FAILED", retryAfter |-> 0]

\* checkAuthStatus, run once when the provider is mounted: without an access
\* token in localStorage no request is made
StartupBegin ==
  /\ proc["startup"].pc = "idle"
  /\ IF storage.accessToken # "none"
     THEN /\ proc' = [proc EXCEPT !["startup"] = Started]
          /\ UNCHANGED isLoading
     ELSE /\ proc' = [proc EXCEPT !["startup"] = [IdleProc EXCEPT !.pc = "done"]]
          /\ isLoading' = FALSE
  /\ UNCHANGED <<user, error, storage>>
  /\ UNCHANGED <<svars, pvars>>

\* one attempt of GET /auth/me of the startup check comes back
StartupFetch(online, o) ==
  /\ proc["startup"].pc = "fetch"
  /\ LET p == proc["startup"]
         t == Thrown(online, o)
         f == [Failed(p, online, o) EXCEPT !.hadRefresh = storage.refreshToken # "none"]
     IN IF o.kind = "ok"
        THEN /\ user' = "user"
             /\ error' = NoError
             /\ isLoading' = FALSE
             /\ proc' = [proc EXCEPT !["startup"] =
                  [p EXCEPT !.pc = "done", !.calls = @ + 1, !.allNet = FALSE]]
             /\ UNCHANGED storage
        ELSE IF RetryDecision(t.ic, p.attempt) = "wait"
        THEN /\ \E j \in Jitters : proc' = [proc EXCEPT !["startup"] =
                  Waiting([Failed(p, online, o) EXCEPT !.pc = "wait", !.waits = @ + 1], j)]
             /\ UNCHANGED <<user, isLoading, error, storage>>
        ELSE IF t.auth /\ t.authError.type \in {"TOKEN_EXPIRED", "TOKEN_INVALID"}
        THEN IF storage.refreshToken = "none"
             THEN \* refreshTokenInternal throws before its try block
                  /\ storage' = Cleared
                  /\ error' = t.authError
                  /\ isLoading' = FALSE
                  /\ proc' = [proc EXCEPT !["startup"] = [f EXCEPT !.pc = "done"]]
                  /\ UNCHANGED user
             ELSE /\ proc' = [proc EXCEPT !["startup"] =
                       [f EXCEPT !.pc = "rfetch", !.attempt = 0]]
                  /\ UNCHANGED <<user, isLoading, error, storage>>
        ELSE /\ storage' = Cleared
             /\ error' = IF t.auth THEN t.authError
                         ELSE [type |-> "UNKNOWN_ERROR", retryAfter |-> 0]
             /\ isLoading' = FALSE
             /\ proc' = [proc EXCEPT !["startup"] = [f EXCEPT !.pc = "done"]]
             /\ UNCHANGED user
  /\ UNCHANGED <<svars, pvars>>

\* refreshToken(): refreshTokenInternal reads the refresh token, and throws before
\* any request when there is none
RefreshTokenStart ==
  /\ proc["refresh"].pc \in {"idle", "done", "failed"}
  /\ proc' = [proc EXCEPT !["refresh"] =
       IF storage.refreshToken # "none" THEN Started ELSE [IdleProc EXCEPT !.pc = "failed"]]
  /\ UNCHANGED <<user, isLoading, error, storage>>
  /\ UNCHANGED <<svars, pvars>>

\* one attempt of POST /auth/refresh comes back, to refreshTokenInternal as called
\* by refreshToken() (caller "refresh") or by the startup check (caller "startup")
RefreshTokenFetch(caller, online, o) ==
  /\ proc[caller].pc = IF caller = "startup" THEN "rfetch" ELSE "fetch"
  /\ LET p == [proc[caller] EXCEPT !.rcalls = @ + 1]
     IN IF o.kind = "ok"
        THEN /\ storage' = [storage EXCEPT !.accessToken = "new"]
             /\ proc' = [proc EXCEPT ![caller] = [p EXCEPT !.pc = "done"]]
             /\ isLoading' = IF caller = "startup" THEN FALSE ELSE isLoading
             /\ UNCHANGED <<user, error>>
        ELSE IF RetryDecision(Thrown(online, o).ic, p.attempt) = "wait"
        THEN /\ \E j \in Jitters : proc' = [proc EXCEPT ![caller] =
                  Waiting([p EXCEPT !.pc = IF caller = "startup" THEN "rwait" ELSE "wait"], j)]
             /\ UNCHANGED <<user, isLoading, error, storage>>
        ELSE /\ storage' = Cleared
             /\ user' = "none"
             /\ IF caller = "startup"
                THEN \* the catch block of checkAuthStatus sets the error of /auth/me
                     /\ error' = [type |-> p.kind, retryAfter |-> 0]
                     /\ isLoading' = FALSE
                     /\ proc' = [proc EXCEPT ![caller] = [p EXCEPT !.pc = "done"]]
                ELSE /\ error' = RefreshFailure(online, o)
                     /\ UNCHANGED isLoading
                     /\ proc' = [proc EXCEPT ![caller] = [p EXCEPT !.pc = "failed"]]
  /\ UNCHANGED <<svars, pvars>>

\* clearError
ClearError ==
  /\ error # NoError
  /\ error' = NoError
  /\ UNCHANGED <<user, isLoading, storage, proc>>
  /\ UNCHANGED <<svars, pvars>>

\* ======================================================================
\* Study plans: GET and PUT /study-plans/:id, and the cache in front of them
\* ======================================================================
\* no row of study_plans has this key
NoPlan == [owner |-> 0, is_public |-> FALSE]

\* no entry under the key; an entry is the completeStudyPlan that was stored
NoCopy == [cached |-> FALSE, is_public |-> FALSE]

IdleGet == [pc |-> "idle", reader |-> 0, plan |-> 0, row |-> NoPlan]

\* an answer to a study-plan request: resp is the response, plan and reader the
\* plan and the user of a GET that was answered 200, fromCache whether the copy
\* came from the cache; authorised is history (when the copy was read, from the
\* cache or from the table, the reader owned the plan or the plan was public)
NoShown ==
  [op |-> "none", resp |-> NoResp, plan |-> 0, reader |-> 0, fromCache |-> FALSE,
   authorised |-> FALSE]

InitPlans ==
  /\ plans = [p \in PlanIds |-> NoPlan]
  /\ cache = [p \in PlanIds |-> NoCopy]
  /\ gets = [g \in ReqIds |-> IdleGet]
  /\ shown = NoShown

\* authenticateToken, then requireVerifiedUser
PlanGate(access) ==
  IF AuthGate(access) # "ok" THEN AuthGate(access)
  ELSE IF \E u \in UserById(access.userId) : ~u.is_verified THEN "unverified"
  ELSE "ok"

PlanError(gate) ==
  IF gate = "unverified" THEN ForbiddenError("Email verification required")
  ELSE IF gate = "notfound" THEN NotFoundError("Study plan not found")
  ELSE AuthError(gate)

Refused(op, gate) == [NoShown EXCEPT !.op = op, !.resp = ErrorHandler(PlanError(gate), gate)]

\* getCache(`study_plan:${id}`): the key names the plan only
GetCache(p, reader) == cache[p]

\* SELECT ... FROM study_plans sp
\*   WHERE sp.id = $1 AND (sp.user_id = $2 OR sp.is_public = true)
SelectPlan(p, reader) ==
  IF plans[p].owner # 0 /\ (plans[p].owner = reader \/ plans[p].is_public)
  THEN plans[p] ELSE NoPlan

\* POST /study-plans: INSERT INTO study_plans, 201
CreatePlan(access, isPublic) ==
  /\ IF PlanGate(access) # "ok"
     THEN /\ shown' = Refused("create", PlanGate(access))
          /\ UNCHANGED plans
     ELSE \E p \in PlanIds :
            /\ plans[p] = NoPlan
            /\ \A q \in PlanIds : q < p => plans[q] # NoPlan
            /\ plans' = [plans EXCEPT ![p] = [owner |-> access.userId, is_public |-> isPublic]]
            /\ shown' = [NoShown EXCEPT !.op = "create",
                                        !.resp = Success(201, "Study plan created successfully",
                                                         FALSE)]
  /\ UNCHANGED <<cache, gets>>
  /\ UNCHANGED <<svars, cvars>>

\* GET /study-plans/:id up to the SELECT: a hit of the cache is answered at once
GetPlanLookup(g, access, p) ==
  /\ gets[g].pc = "idle"
  /\ \A q \in ReqIds : q < g => gets[q].pc # "idle"
  /\ LET reader == access.userId
         mayRead == plans[p].owner # 0 /\ (plans[p].owner = reader \/ plans[p].is_public)
     IN IF PlanGate(access) # "ok"
        THEN /\ shown' = Refused("get", PlanGate(access))
             /\ UNCHANGED gets
        ELSE IF GetCache(p, reader).cached
        THEN /\ shown' = [op |-> "get", resp |-> Success(200, "", FALSE), plan |-> p,
                          reader |-> reader, fromCache |-> TRUE, authorised |-> mayRead]
             /\ UNCHANGED gets
        ELSE IF SelectPlan(p, reader) = NoPlan
        THEN /\ shown' = Refused("get", "notfound")
             /\ UNCHANGED gets
        ELSE /\ gets' = [gets EXCEPT ![g] = [pc |-> "store", reader |-> reader, plan |-> p,
                                             row |-> SelectPlan(p, reader)]]
             /\ shown' = NoShown
  /\ UNCHANGED <<plans, cache>>
  /\ UNCHANGED <<svars, cvars>>

\* the steps and resources are read, the plan is cached for 5 minutes, 200
GetPlanStore(g) ==
  /\ gets[g].pc = "store"
  /\ cache' = [cache EXCEPT ![gets[g].plan] =
                 [cached |-> TRUE, is_public |-> gets[g].row.is_public]]
  /\ shown' = [op |-> "get", resp |-> Success(200, "", FALSE), plan |-> gets[g].plan,
               reader |-> gets[g].reader, fromCache |-> FALSE, authorised |-> TRUE]
  /\ gets' = [gets EXCEPT ![g] = IdleGet]
  /\ UNCHANGED plans
  /\ UNCHANGED <<svars, cvars>>

\* PUT /study-plans/:id: only the owner's row is found; UPDATE, deleteCache, 200
UpdatePlan(access, p, isPublic) ==
  /\ IF PlanGate(access) # "ok"
     THEN /\ shown' = Refused("update", PlanGate(access))
          /\ UNCHANGED <<plans, cache>>
     ELSE IF plans[p].owner # access.userId
     THEN /\ shown' = Refused("update", "notfound")
          /\ UNCHANGED <<plans, cache>>
     ELSE /\ plans' = [plans EXCEPT ![p] = [@ EXCEPT !.is_public = isPublic]]
          /\ cache' = [cache EXCEPT ![p] = NoCopy]
          /\ shown' = [NoShown EXCEPT !.op = "update",
                                      !.resp = Success(200, "Study plan updated successfully",
                                                       FALSE)]
  /\ UNCHANGED gets
  /\ UNCHANGED <<svars, cvars>>

\* the 300 seconds of an entry are over
CacheExpire(p) ==
  /\ cache[p].cached
  /\ cache' = [cache EXCEPT ![p] = NoCopy]
  /\ shown' = NoShown
  /\ UNCHANGED <<plans, gets>>
  /\ UNCHANGED <<svars, cvars>>

PresentableRefresh == issuedRefresh \cup {NoToken, BadToken}

\* the access tokens a client can hold: generateTokens and the refresh handler sign
\* one for a user id at the clock of the request; a token with an earlier
\* timestamp behaves as one that was issued and is nearer to its expiry
PresentableAccess ==
  IF Configured
  THEN {JwtSign(u, "access", "access", AccessTTL, i) : u \in 1..(nextUid - 1), i \in 0..now}
         \cup {NoToken}
  ELSE {NoToken, BadToken}

\* the server starts on empty tables, in an environment that sets both secrets,
\* one of them or none; the browser has not stored anything
Init ==
  /\ InitServer
  /\ secrets \in SUBSET Secrets
  /\ InitClient
  /\ storage = Cleared
  /\ InitPlans

Next ==
  \/ \E g \in RegIds, i \in RegistrationInputs : RegisterCheck(g, "fresh", i[1], i[2], i[3])
  \/ \E g \in RegIds : RegisterInsert(g)
  \/ \E r \in ReqIds, e \in EmailInputs, p \in PasswordInputs : LoginCheck(r, "fresh", e, p)
  \/ \E r \in ReqIds : LoginIssue(r)
  \/ \E r \in ReqIds, t \in PresentableRefresh : RefreshScan(r, t)
  \/ \E r \in ReqIds : RefreshFinish(r)
  \/ \E a \in PresentableAccess, t \in PresentableRefresh, f \in BOOLEAN : Logout(a, t, f)
  \/ \E a \in PresentableAccess : Me(a)
  \/ \E a \in PresentableAccess, c \in PasswordInputs, n \in PasswordInputs :
       ChangePassword(a, c, n)
  \/ \E a \in PresentableAccess, p \in PasswordInputs : DeleteAccount(a, p)
  \/ Tick
  \/ \E id \in UIds : VerifyEmail(id)
  \/ \E id \in UIds : Deactivate(id)

\* the handlers under requests that each come from another source address
Spec == Init /\ [][Next]_vars

\* the routes behind authLimiter under requests of which some share their source
\* address; windows end
LimiterNext ==
  \/ \E g \in RegIds, a \in Addresses, i \in RegistrationInputs :
       RegisterCheck(g, a, i[1], i[2], i[3])
  \/ \E g \in RegIds : RegisterInsert(g)
  \/ \E r \in ReqIds, a \in Addresses, e \in EmailInputs, p \in PasswordInputs :
       LoginCheck(r, a, e, p)
  \/ \E r \in ReqIds : LoginIssue(r)
  \/ WindowReset
  \/ \E id \in UIds : Deactivate(id)

LimiterSpec == Init /\ [][LimiterNext]_vars

\* the users row that a registration at tick 0 inserted
RegisteredUser(id, email, username, password) ==
  [id |-> id, email |-> email, username |-> username,
   password_hash |-> BcryptHash(password, id), is_active |-> TRUE, is_verified |-> FALSE]

\* the user_sessions row that a registration or login of the user inserted at
\* tick at, with the refresh token generateTokens signed then
SessionAt(id, userId, at) ==
  [id |-> id, user_id |-> userId,
   refresh_token_hash |-> BcryptHash(JwtSign(userId, "refresh", "refresh", RefreshTTL, at), id),
   expires_at |-> at + SessionTTL, is_active |-> TRUE, ep |-> 0, byLogout |-> FALSE]

\* two users have registered at tick 0, and each has logged in from a second
\* device, within the same second or in the next one: four sessions
DevicesInit ==
  /\ users = {RegisteredUser(1, "a@x", "ann", "pw1111"),
              RegisteredUser(2, "b@x", "bob", "pw2222")}
  /\ nextUid = 3
  /\ \E at \in 0..1 :
       /\ now = at
       /\ sessions = {SessionAt(1, 1, 0), SessionAt(2, 2, 0), SessionAt(3, 1, at),
                      SessionAt(4, 2, at)}
       /\ issuedRefresh = {JwtSign(u, "refresh", "refresh", RefreshTTL, i) :
                             u \in 1..2, i \in {0, at}}
  /\ nextSid = 5
  /\ reqs = [r \in ReqIds |-> IdleReq]
  /\ pwEpoch = [u \in 1..2 |-> 0]
  /\ last = NoLast
  /\ regs = [g \in RegIds |-> IdleReg]
  /\ hits = 0
  /\ secrets = Secrets
  /\ InitClient
  /\ storage = Cleared
  /\ InitPlans

DevicesNext ==
  \/ \E a \in PresentableAccess, t \in PresentableRefresh, f \in BOOLEAN : Logout(a, t, f)
  \/ \E a \in PresentableAccess : Me(a)
  \/ Tick
  \/ \E id \in 1..2 : Deactivate(id)

\* logout and /me of two users with two devices each
DevicesSpec == DevicesInit /\ [][DevicesNext]_vars

\* the client is mounted in a browser that may hold tokens of an earlier visit:
\* both (a login), none (a logout, a failed refresh), or the access token alone
\* (a refresh that ended after a logout); no operation leaves the refresh token
\* alone
ClientInit ==
  /\ InitServer
  /\ secrets = Secrets
  /\ InitClient
  /\ storage \in {s \in [accessToken : {"none", "old"}, refreshToken : {"none", "old"}] :
                    s.refreshToken # "none" => s.accessToken # "none"}
  /\ InitPlans

ClientNext ==
  \/ LoginStart
  \/ \E online \in BOOLEAN, o \in Outcomes : LoginFetch(online, o)
  \/ \E op \in Ops : BackoffElapsed(op)
  \/ LogoutStart
  \/ \E online \in BOOLEAN, o \in Outcomes : LogoutFetch(online, o)
  \/ ClearError

ClientSpec == ClientInit /\ [][ClientNext]_vars

\* the login operation by itself, under every outcome of its requests
LoginNext ==
  \/ LoginStart
  \/ \E online \in BOOLEAN, o \in Outcomes : LoginFetch(online, o)
  \/ BackoffElapsed("login")
  \/ ClearError

LoginSpec == ClientInit /\ [][LoginNext]_vars

\* the two forms: login and signup, which may be in flight together
FormsNext ==
  \/ LoginStart
  \/ \E online \in BOOLEAN, o \in Outcomes : LoginFetch(online, o)
  \/ SignupStart
  \/ \E online \in BOOLEAN, o \in Outcomes : SignupFetch(online, o)
  \/ \E op \in {"login", "signup"} : BackoffElapsed(op)
  \/ ClearError

FormsSpec == ClientInit /\ [][FormsNext]_vars

\* the provider from its mounting on: the startup check, and the refresh calls of
\* the components beside it
StartupNext ==
  \/ StartupBegin
  \/ \E online \in BOOLEAN, o \in Outcomes : StartupFetch(online, o)
  \/ RefreshTokenStart
  \/ \E caller \in {"startup", "refresh"}, online \in BOOLEAN, o \in Outcomes :
       RefreshTokenFetch(caller, online, o)
  \/ \E op \in Ops : BackoffElapsed(op)
  \/ ClearError

StartupSpec == ClientInit /\ [][StartupNext]_vars

\* the effect runs once the provider is mounted, every fetch settles and every
\* timer fires
StartupFairSpec ==
  /\ StartupSpec
  /\ WF_vars(StartupBegin)
  /\ WF_vars(\E online \in BOOLEAN, o \in Outcomes : StartupFetch(online, o))
  /\ WF_vars(\E online \in BOOLEAN, o \in Outcomes : RefreshTokenFetch("startup", online, o))
  /\ WF_vars(BackoffElapsed("startup"))

\* every fetch settles and every timer fires
ClientFairSpec ==
  /\ ClientSpec
  /\ WF_vars(\E online \in BOOLEAN, o \in Outcomes : LogoutFetch(online, o))
  /\ WF_vars(BackoffElapsed("logout"))

PlansNext ==
  \/ \E a \in PresentableAccess, b \in BOOLEAN : CreatePlan(a, b)
  \/ \E g \in ReqIds, a \in PresentableAccess, p \in PlanIds : GetPlanLookup(g, a, p)
  \/ \E g \in ReqIds : GetPlanStore(g)
  \/ \E a \in PresentableAccess, p \in PlanIds, b \in BOOLEAN : UpdatePlan(a, p, b)
  \/ \E p \in PlanIds : CacheExpire(p)
  \/ \E id \in 1..2 : VerifyEmail(id)

\* the study-plan routes under the requests of two registered users
PlansSpec == DevicesInit /\ [][PlansNext]_vars

TypeOK ==
  /\ now \in 0..MaxTime
  /\ \A u \in users : u.id \in 1..(nextUid - 1)
  /\ \A s \in sessions : s.id \in 1..(nextSid - 1)
  /\ hits \in 0..(Budget + 1)
  /\ \A p \in PlanIds : cache[p].cached => plans[p] # NoPlan

\* ======================================================================
\* Properties
\* ======================================================================
Refreshed(r) == reqs[r].op = "refresh" /\ reqs[r].pc = "done"

\* C1: once a logout called with a refresh token has invalidated a session, every
\* later refresh that presents this token is answered 401 and carries no access
\* token.  It fails: two logins of one user within one tick get the same token
\* and two session rows, and the logout invalidates the first matching row only.
C1_LoggedOutTokenRejected ==
  \A r \in ReqIds :
    (Refreshed(r) /\ reqs[r].late) => (reqs[r].resp.status = 401 /\ ~reqs[r].resp.hasToken)

\* C2: a refresh gets past the session scan, and is answered 200, only with a row
\* that, when the sessions were read, belonged to the user of the token, was
\* active, had its expiry ahead and held a hash that matches the token.
C2_RefreshNeedsLiveSession ==
  \A r \in ReqIds :
    (reqs[r].op = "refresh" /\ (reqs[r].pc = "refresh2" \/ reqs[r].resp.status = 200)) =>
      LET m == reqs[r].match
      IN /\ m # NoRow
         /\ m.user_id = reqs[r].tok.userId
         /\ m.is_active
         /\ m.expires_at > reqs[r].at
         /\ BcryptCompare(reqs[r].tok, m.refresh_token_hash)
         /\ JwtVerify(reqs[r].tok, "refresh", reqs[r].at) = "ok"

\* a refresh was answered 200 while the user also has a session that is not active
C2_Witness ==
  \E r \in ReqIds :
    /\ Refreshed(r) /\ reqs[r].resp.status = 200 /\ reqs[r].resp.hasToken
    /\ \E s \in sessions : s.user_id = reqs[r].uid /\ ~s.is_active

\* C3: a successful refresh returns an access token and leaves every session row
\* as it was, so that the token it presented passes the session scan again, and
\* run after run of refreshes with one token succeeds.
C3_RefreshDoesNotRotate ==
  [][\A r \in ReqIds :
       (reqs[r].pc = "refresh2" /\ reqs'[r].pc = "done" /\ reqs'[r].resp.status = 200) =>
         /\ reqs'[r].resp.hasToken
         /\ sessions' = sessions
         /\ issuedRefresh' = issuedRefresh
         /\ (RefreshGate(reqs[r].tok) = "ok" => RefreshGate(reqs[r].tok)' = "ok")]_vars

\* a second successful refresh in a row with one token
C3_Witness ==
  \E r \in ReqIds : Refreshed(r) /\ reqs[r].resp.status = 200 /\ reqs[r].streak = 2

\* C4: an operation waits for a retry only after a failure of kind NetworkError or
\* ServerError; a failure of another kind ends it after one attempt.  It fails:
\* retryWithBackoff rethrows at once only when the message of the error contains
\* INVALID_CREDENTIALS, so a 401, 422 or 429 answer is retried like any other.
C4_OnlyNetworkAndServerRetried ==
  \A op \in Ops :
    /\ proc[op].pc = "wait" => proc[op].kind \in {"NETWORK_ERROR", "SERVER_ERROR"}
    /\ (proc[op].calls > 0 /\ proc[op].kind \notin {"none", "NETWORK_ERROR", "SERVER_ERROR"}) =>
         (proc[op].calls = 1 /\ proc[op].waits = 0)

\* C5: while every attempt of a login has failed with a network error, at most
\* MaxRetries + 1 attempts have been made, the login is failed exactly when
\* MaxRetries + 1 attempts have been made, and it fails with kind NetworkError.
C5_NetworkErrorAttempts ==
  [][LET p == proc'["login"]
     IN (p.allNet /\ p.calls > 0) =>
          /\ p.calls <= MaxRetries + 1
          /\ p.pc \in {"wait", "fetch", "failed"}
          /\ (p.pc = "failed" <=> p.calls = MaxRetries + 1)
          /\ p.kind = "NETWORK_ERROR"
          /\ p.waits = IF p.pc = "failed" THEN p.calls - 1 ELSE p.calls
          /\ (proc["login"].pc = "fetch" /\ p.pc = "failed") =>
               (error'.type = "NETWORK_ERROR" /\ ~isLoading' /\ user' = user)]_vars

\* a login failed after MaxRetries + 1 attempts that all met a network error
C5_Witness ==
  /\ proc["login"].pc = "failed"
  /\ proc["login"].allNet
  /\ proc["login"].calls = MaxRetries + 1
  /\ error.type = "NETWORK_ERROR"

LogoutRunning == proc["logout"].pc \in {"fetch", "wait"}

\* C6: a logout that is under way comes to its end, and the step that ends a
\* logout leaves no user, no error and neither token in localStorage, whatever
\* the remote call did.
C6_LogoutAlwaysClears ==
  /\ [][(proc["logout"].pc # "done" /\ proc'["logout"].pc = "done") =>
          (user' = "none" /\ error' = NoError /\ storage' = Cleared)]_vars
  /\ [][proc'["logout"].calls <= MaxRetries + 1]_vars
  /\ (LogoutRunning ~> proc["logout"].pc = "done")

\* a logout ended after every attempt of the remote call had failed
C6_Witness ==
  /\ proc["logout"].pc = "done"
  /\ proc["logout"].calls = MaxRetries + 1
  /\ proc["logout"].kind # "none"
  /\ user = "none" /\ error = NoError /\ storage = Cleared

\* C7: a refresh rejected because no stored hash matches the token is answered
\* as one rejected because the user has no active session.  It fails: the two
\* messages differ.
C7_NoSessionLikeWrongToken ==
  \A r \in ReqIds :
    (Refreshed(r) /\ reqs[r].resp.gate = "nomatch") =>
      Body(reqs[r].resp) = Body(ErrorHandler(RefreshError("nosession"), "nosession"))

C9_OldPasswordSessionsInactive ==
  \A s \in sessions : s.ep < pwEpoch[s.user_id] => ~s.is_active

\* C10: a refresh that matched a session of a user who is not active leaves that
\* session inactive and is answered with a status the client classifies as
\* AccountDeactivated.  It fails: the answer is a 401, classified as
\* InvalidCredentials.
C10_InactiveUserRefresh ==
  \A r \in ReqIds :
    (Refreshed(r) /\ reqs[r].resp.gate = "inactive") =>
      /\ \A s \in sessions : s.id = reqs[r].match.id => ~s.is_active
      /\ DetermineErrorType(TRUE, reqs[r].resp.status, "none", FALSE) = "ACCOUNT_DEACTIVATED"

\* C11: every logout is answered 200, whatever tokens it carries and whether or
\* not the session store fails while the sessions are invalidated.  It fails: the
\* route runs authenticateToken first, and a logout whose access token is
\* missing, expired or of a deactivated user is answered 401 or 403 with every
\* session left active.
C11_LogoutAlways200 ==
  last.op = "logout" => last.resp.status = 200

\* C12: a startup check that could not authenticate the user from the stored
\* access token while a refresh token was stored has tried the refresh flow
\* before it ends.  It fails: the check turns to the refresh flow only for a
\* failure of kind TOKEN_EXPIRED or TOKEN_INVALID, which determineErrorType never
\* gives (a 401 is INVALID_CREDENTIALS), so it removes both tokens at once.
C12_RefreshTriedAtStartup ==
  (proc["startup"].pc = "done" /\ proc["startup"].hadRefresh) => proc["startup"].rcalls >= 1

\* C13: the startup check ends: it makes at most MaxRetries + 1 requests to
\* /auth/me and as many to /auth/refresh, the step that ends it sets isLoading to
\* false and, when it leaves no user, leaves neither token in localStorage; once
\* it has ended, neither the check nor a refresh sets isLoading again; and a check
\* that has not ended comes to its end.
C13_StartupSettles ==
  /\ [][(proc["startup"].pc # "done" /\ proc'["startup"].pc = "done") =>
          /\ ~isLoading'
          /\ user' = "none" =>
               (storage'.accessToken = "none" /\ storage'.refreshToken = "none")]_vars
  /\ [][proc'["startup"].calls <= MaxRetries + 1
          /\ proc'["startup"].rcalls <= MaxRetries + 1]_vars
  /\ [][(proc["startup"].pc = "done" /\ ~isLoading) =>
          (proc'["startup"].pc = "done" /\ ~isLoading')]_vars
  /\ (proc["startup"].pc # "done" ~> (proc["startup"].pc = "done" /\ ~isLoading))

\* the check ended without a user after MaxRetries + 1 failed requests, begun with
\* both tokens stored
C13_Witness ==
  /\ proc["startup"].pc = "done"
  /\ proc["startup"].calls = MaxRetries + 1
  /\ proc["startup"].hadRefresh
  /\ user = "none" /\ ~isLoading
  /\ storage.accessToken = "none" /\ storage.refreshToken = "none"

\* C14: a login request of an address that has had Budget or more requests
\* counted in the window (so the request after Budget logins, at the latest) is
\* answered 429 with the retry-after value, and it is answered by the limiter
\* alone: whatever its credentials, it gets the same response and never goes on
\* to the password comparison.
C14_LoginOverBudget ==
  [][\A r \in ReqIds, e \in EmailInputs, p \in PasswordInputs :
       (LoginCheck(r, "same", e, p) /\ hits >= Budget) =>
         /\ reqs'[r].pc = "done"
         /\ reqs'[r].resp.status = 429
         /\ reqs'[r].resp.retryAfter = RetryAfterSecs
         /\ reqs'[r].resp.gate = "limit"
         /\ \A q \in ReqIds : reqs'[q].pc = "login2" => reqs[q].pc = "login2"]_vars

\* a login was throttled as the request after Budget requests, while a user exists
\* whose credentials it could have carried
C14_Witness ==
  /\ hits = Budget + 1
  /\ users # {}
  /\ \E r \in ReqIds : reqs[r].op = "login" /\ reqs[r].pc = "done" /\ reqs[r].resp.status = 429

\* C15: with both secrets set, a registration whose e-mail and username no user
\* has when the row is inserted is answered 201 with tokens, and a GET /auth/me
\* that follows it at once with the access token it issued is answered 200 with
\* the e-mail and the username as they were submitted.  It fails: the validator
\* normalises the e-mail before it is stored, and /auth/me returns the stored one.
C15_RegisterThenMe ==
  [][/\ \A g \in RegIds :
          (RegisterInsert(g) /\ Configured /\ UserByEmail(regs[g].email) = {}
             /\ {u \in users : u.username = regs[g].username} = {}) =>
            (last'.resp.status = 201 /\ last'.resp.hasToken)
     /\ (last.op = "register" /\ last.resp.status = 201 /\ Me(last.tok)) =>
          /\ last'.resp.status = 200
          /\ last'.email = last.subEmail
          /\ last'.username = last.subUsername]_vars

\* C16: a valid registration whose e-mail or username a user already has, when
\* the handler looks the user up or (both secrets set) inserts the row, is
\* answered 409 and adds no user and no session; and no two users share an
\* e-mail or a username.
\* It fails: of two registrations of one e-mail that both pass the lookup, the
\* second is stopped by the UNIQUE constraint only, and the error of the driver is
\* answered 500.
C16_DuplicateAnswered409 ==
  [][/\ \A g \in RegIds, i \in RegistrationInputs :
          (RegisterCheck(g, "fresh", i[1], i[2], i[3])
             /\ RegisterGate(i[1], i[2], i[3]) = "conflict") =>
            (last'.resp.status = 409 /\ users' = users /\ sessions' = sessions
               /\ regs' = regs)
     /\ \A g \in RegIds :
          (RegisterInsert(g) /\ Configured
             /\ (UserByEmail(regs[g].email) # {}
                   \/ {u \in users : u.username = regs[g].username} # {})) =>
            (last'.resp.status = 409 /\ users' = users /\ sessions' = sessions)
     /\ \A u, v \in users' :
          (u.email = v.email \/ u.username = v.username) => u = v]_vars

\* C17: with the access secret set, every GET /auth/me is answered 200 with the
\* user record, or 401.  It fails: for the token of a deactivated user
\* authenticateToken throws ForbiddenError, and the answer is 403.
C17_MeIs200Or401 ==
  (last.op = "me" /\ "JWT_SECRET" \in secrets) =>
    \/ last.resp.status = 200 /\ last.email # ""
    \/ last.resp.status = 401

\* C18: in an environment where a signing secret is unset no request is
\* processed: no registration is answered with the configuration error, and no
\* user row and no session row is ever written.  It fails: the secrets are read
\* by generateTokens, request by request, after the handler has inserted the
\* user; the registration is answered 500 and its user row stays.
C18_NoServiceWithoutSecrets ==
  ~Configured =>
    /\ users = {}
    /\ sessions = {}
    /\ ~(last.op = "register" /\ last.resp.gate = "config")

\* C19: no step removes a session row: every row of user_sessions is still there
\* after the step, with its key, its user, its hash and its expiry.  It fails:
\* DELETE /users/account deletes the user row, and the foreign key of
\* user_sessions is declared ON DELETE CASCADE.
C19_SessionsNeverRemoved ==
  [][\A s \in sessions :
       \E t \in sessions' :
         /\ t.id = s.id
         /\ t.user_id = s.user_id
         /\ t.refresh_token_hash = s.refresh_token_hash
         /\ t.expires_at = s.expires_at]_vars

\* C20: every failed attempt of a login is given exactly one kind, and it is the
\* kind of this table: offline, NetworkError; else by the status of the response
\* 401 InvalidCredentials, 403 AccountDeactivated, 404 AccountNotFound, 422
\* ValidationError, 429 RateLimited, 500, 502, 503 and 504 ServerError, any other
\* UnknownError; else, without a response, NetworkError for a TypeError or an
\* exception that names fetch, and UnknownError for the rest.
C20_ClassificationTable ==
  [][\A online \in BOOLEAN, o \in Outcomes :
       (LoginFetch(online, o) /\ o.kind # "ok") =>
         proc'["login"].kind =
           IF ~online THEN "NETWORK_ERROR"
           ELSE IF o.kind = "status"
           THEN IF o.status = 401 THEN "INVALID_CREDENTIALS"
                ELSE IF o.status = 403 THEN "ACCOUNT_DEACTIVATED"
                ELSE IF o.status = 404 THEN "ACCOUNT_NOT_FOUND"
                ELSE IF o.status = 422 THEN "VALIDATION_ERROR"
                ELSE IF o.status = 429 THEN "RATE_LIMITED"
                ELSE IF o.status \in {500, 502, 503, 504} THEN "SERVER_ERROR"
                ELSE "UNKNOWN_ERROR"
           ELSE IF o.name = "TypeError" \/ o.fetchMsg THEN "NETWORK_ERROR"
           ELSE "UNKNOWN_ERROR"]_vars

\* a login has failed for good with a failure of a status that the table does not
\* name, or of an exception that is neither a TypeError nor names fetch
C20_Witness ==
  /\ proc["login"].pc = "failed"
  /\ proc["login"].kind = "UNKNOWN_ERROR"
  /\ error.type = "UNKNOWN_ERROR"


\* C21: when logout has completed while a login call was waiting for a response
\* or for its backoff timer, the client is unauthenticated once that login call
\* has finished: no user, no stored access or refresh token.
\* It fails: login has no cancellation, and the response of an attempt that
\* arrives after the logout stores both tokens and sets the user.
C21_ResetIsAuthoritative ==
  (proc["login"].pc \in {"done", "failed"} /\ proc["login"].reset) =>
    (user = "none" /\ storage = Cleared)


\* C22: whenever a call of the client's refresh operation fails, the client is
\* left with no user, no access token and no refresh token in storage, and with
\* the error set; also when no refresh token was stored at the call.
\* It fails: without a stored refresh token refreshTokenInternal throws before
\* its try block, so nothing is removed and no error is set.
C22_RefreshFailureClears ==
  [][(proc["refresh"].pc # "failed" /\ proc'["refresh"].pc = "failed") =>
       (user' = "none" /\ storage' = Cleared /\ error' # NoError)]_vars


\* C23: a login or signup call that ends in terminal failure has left the held
\* user and both stored tokens as they were (no step of the call other than a
\* successful response writes them), has set the error to the AuthError that
\* classifies its last failure, and leaves the loading flag false.
C23_FailureLeavesState ==
  [][\A op \in {"login", "signup"} :
       /\ (proc'[op] # proc[op] /\ proc'[op].pc # "done") => UNCHANGED <<user, storage>>
       /\ (proc[op].pc = "fetch" /\ proc'[op].pc = "failed") =>
            /\ ~isLoading'
            /\ error'.type = proc'[op].kind
            /\ error'.type # "none"]_vars

\* a signup has failed for good on a 422 while a user and tokens were held
C23_Witness ==
  /\ proc["signup"].pc = "failed"
  /\ proc["signup"].kind = "VALIDATION_ERROR"
  /\ error.type = "VALIDATION_ERROR"
  /\ ~isLoading
  /\ user = "user"
  /\ storage.accessToken = "new"


\* C24: the wait that follows the failed attempt n (counted from 0) is
\* min(baseDelay * 2^n, maxDelay) plus a jitter of at least 0 and less than
\* 1000 ms: without the jitter 1000, 2000 and 4000 ms; every wait is at least
\* baseDelay and less than maxDelay + 1000 ms; and no wait follows the last
\* attempt, the one numbered maxRetries.
C24_BackoffDelays ==
  \A op \in Ops :
    LET n == proc[op].attempt
        d == proc[op].delay
    IN IF proc[op].pc \in {"wait", "rwait"}
       THEN /\ n < MaxRetries
            /\ \E j \in 0..999 :
                 /\ d = (IF BaseDelay * 2^n < MaxDelay THEN BaseDelay * 2^n ELSE MaxDelay) + j
                 /\ d - j = (CASE n = 0 -> 1000 [] n = 1 -> 2000 [] n = 2 -> 4000)
            /\ d >= BaseDelay
            /\ d < MaxDelay + 1000
       ELSE d = 0

\* login waits the longest time it can wait, after its third failure
C24_Witness ==
  /\ proc["login"].pc = "wait"
  /\ proc["login"].attempt = 2
  /\ proc["login"].delay = 4999
  /\ proc["login"].calls = 3


\* C25: once the startup check has settled, the loading flag is true exactly
\* while a call of login, signup, refresh or logout is in flight (between its
\* invocation and its settling).
\* It fails: refreshToken() and logout() never set the flag, so it is false
\* while they are in flight.
C25_LoadingWhileInFlight ==
  proc["startup"].pc = "done" =>
    (isLoading <=>
       \E op \in {"login", "signup", "refresh", "logout"} : proc[op].pc \in {"fetch", "wait"})


\* C26: the held AuthError carries a retry-after value only if its kind is
\* RATE_LIMITED; and the error that a 429 response with a retry-after header
\* leaves is of kind RATE_LIMITED and carries the duration of the header.
\* It fails: the kind is NETWORK_ERROR whenever navigator.onLine is false,
\* while the header of a 429 response is read all the same; and the header is
\* not read when the body of the response cannot be parsed.
C26_RetryAfterOnlyRateLimited ==
  [][/\ error'.retryAfter # 0 => error'.type = "RATE_LIMITED"
     /\ (proc["login"].pc = "fetch" /\ proc'["login"].pc = "failed") =>
          \A online \in BOOLEAN, o \in Outcomes :
            (o.status = 429 /\ o.retryAfter # 0 /\ LoginFetch(online, o)) =>
              error' = [type |-> "RATE_LIMITED", retryAfter |-> o.retryAfter * 1000]]_vars


\* C27: a logout that carries a refresh token in its body changes at most one
\* session row, and only a row of the authenticated user, by clearing its active
\* flag: the other sessions of that user and the sessions of every other user
\* stay as they are, also when the token is another user's or matches nothing.
C27_LogoutChangesOneOwnSession ==
  [][last'.op = "logout" =>
       \A a \in PresentableAccess, t \in PresentableRefresh \ {NoToken}, f \in BOOLEAN :
         Logout(a, t, f) =>
           /\ Cardinality(sessions \ sessions') <= 1
           /\ \A s \in sessions \ sessions' :
                /\ s.user_id = a.userId
                /\ s.is_active
                /\ BcryptCompare(t, s.refresh_token_hash)
                /\ \E n \in sessions' \ sessions : n.id = s.id /\ ~n.is_active
           /\ {s.id : s \in sessions'} = {s.id : s \in sessions}]_vars

\* user 1 has logged out with the token that its two sessions share: one of
\* them is inactive, the other and the sessions of user 2 are active
C27_Witness ==
  /\ last.op = "logout"
  /\ last.resp.status = 200
  /\ \E s1 \in sessions, s2 \in sessions :
       /\ s1.user_id = 1 /\ s2.user_id = 1 /\ s1.id # s2.id
       /\ s1.refresh_token_hash.of = s2.refresh_token_hash.of
       /\ s1.byLogout /\ ~s1.is_active /\ s2.is_active
  /\ \A s \in sessions : s.user_id = 2 => s.is_active


\* C28: invalidating sessions revokes no access token. GET /auth/me with an
\* access token is answered 200 exactly when the token verifies (signed with
\* JWT_SECRET, unexpired) and its user exists and is active, whatever the
\* sessions table holds: also after the session of the login was invalidated by
\* a logout or by a password change.
C28_AccessTokenOutlivesSession ==
  [][last'.op = "me" =>
       \A a \in PresentableAccess :
         Me(a) =>
           (last'.resp.status = 200 <=>
              /\ a # NoToken
              /\ "JWT_SECRET" \in secrets
              /\ JwtVerify(a, "access", now) = "ok"
              /\ \E u \in users : u.id = a.userId /\ u.is_active)]_vars

\* /auth/me has answered 200 to a user all of whose sessions are inactive: one
\* was invalidated by a logout, the rest by a password change
C28_Witness ==
  /\ last.op = "me"
  /\ last.resp.status = 200
  /\ sessions # {}
  /\ \A s \in sessions : ~s.is_active
  /\ \E s \in sessions : s.byLogout
  /\ \E u \in users : pwEpoch[u.id] > 0


\* C29: a registration that is not answered 201 leaves the tables as they were:
\* no users row and no user_sessions row was added, whichever step failed.
\* It fails: the handler runs no transaction, and the users row is inserted
\* before generateTokens throws for an unset secret (the bug of C18).
C29_FailedRegisterLeavesStores ==
  [][(last'.op = "register" /\ last'.resp.status # 201) =>
       (users' = users /\ sessions' = sessions)]_vars


\* C30: GET /study-plans/:id answers 200 with the contents of a plan only to
\* a reader who owns the plan, or for a plan that is public, at the moment the
\* copy is read; also when the copy comes from the cache.
\* It fails: the cache key names the plan only, and a hit is answered before
\* the ownership is looked at, so the copy that the owner's read stored is
\* served to every verified user.
C30_PlanShownToOwnerOrPublic ==
  (shown.op = "get" /\ shown.resp.status = 200) => shown.authorised

====
